---------------------------- MODULE Spec2Model ----------------------------
(***************************************************************************)
(* Model of the real-time frame pipeline of app.py: the streaming          *)
(* generator generate_frames (one per /video_feed session), the            *)
(* recognition passes FacialRecognitionSystem.recognize_face started as    *)
(* daemon threads, the identity store load_database, and the control       *)
(* routes.  Every access to a module-level global (camera,                 *)
(* recognition_active, current_results) or to fr_system.known_faces is a   *)
(* step of its own, because Flask runs with threaded=True and the passes   *)
(* run on their own threads; purely local computation is folded into the   *)
(* step of the shared access that precedes it.                             *)
(***************************************************************************)
EXTENDS Integers, Sequences, FiniteSets, TLC

\* ------------------------------------------------------------ bounds
NumSessions == 2      \* /video_feed sessions over the life of the process
MaxFrames   == 2      \* frames the camera delivers in total
MaxFaces    == 1      \* regions detectMultiScale returns for one frame
NumHandlers == 2      \* concurrent /start_recognition or /reload_database requests

Sessions == 1..NumSessions
Passes   == 1..MaxFrames          \* at most one pass is started per frame read
Handlers == 1..NumHandlers
ListIds  == 1..(MaxFrames + NumHandlers + 2)
                                  \* list objects alive at once: one per iterating pass,
                                  \* one per appending request, the one known_faces
                                  \* names, one being allocated
None     == 0                     \* Python's None for camera / no list

\* ------------------------------------------------------------ strings
\* A Python str is a sequence of one-character strings.
UpperCase == <<"A","B","C","D","E","F","G","H","I","J","K","L","M",
               "N","O","P","Q","R","S","T","U","V","W","X","Y","Z">>
LowerCase == <<"a","b","c","d","e","f","g","h","i","j","k","l","m",
               "n","o","p","q","r","s","t","u","v","w","x","y","z">>

LowerChar(c) ==
    IF \E i \in 1..26 : UpperCase[i] = c
    THEN LowerCase[CHOOSE i \in 1..26 : UpperCase[i] = c]
    ELSE c

\* str.lower()
Lower(s) == [i \in 1..Len(s) |-> LowerChar(s[i])]

\* str.endswith(suffix)
EndsWith(s, suf) ==
    /\ Len(suf) <= Len(s)
    /\ SubSeq(s, Len(s) - Len(suf) + 1, Len(s)) = suf

\* ALLOWED suffixes of  filename.lower().endswith(('.png', '.jpg', '.jpeg'))
ImageSuffixes == { <<".","p","n","g">>, <<".","j","p","g">>, <<".","j","p","e","g">> }

\* the suffix test without .lower()
IsImageFileCaseSensitive(filename) == \E suf \in ImageSuffixes : EndsWith(filename, suf)

IsImageFile(filename) == \E suf \in ImageSuffixes : EndsWith(Lower(filename), suf)

\* position of the last "." of s, 0 when there is none (str.rfind + 1)
LastDot(s) ==
    IF \E i \in 1..Len(s) : s[i] = "."
    THEN CHOOSE i \in 1..Len(s) : s[i] = "." /\ \A j \in (i+1)..Len(s) : s[j] # "."
    ELSE 0

\* os.path.splitext(filename)[0] for a name without a directory separator: the
\* name is cut at its last dot unless only dots precede that dot.
SplitExtRoot(s) ==
    LET d == LastDot(s) IN
    IF d > 0 /\ \E i \in 1..(d-1) : s[i] # "."
    THEN SubSeq(s, 1, d - 1)
    ELSE s

\* the str whose characters are cs
RECURSIVE Str(_)
Str(cs) == IF cs = << >> THEN "" ELSE Head(cs) \o Str(Tail(cs))

UPLOAD_FOLDER == "database/photos"

\* os.path.join(database_path, filename), filename relative
PathJoin(dir, filename) == dir \o "/" \o Str(filename)

\* the dict appended to known_faces for one file
FaceEntry(filename) ==
    [name |-> Str(SplitExtRoot(filename)), path |-> PathJoin(UPLOAD_FOLDER, filename)]

\* the listing os.listdir returns for the database folder in this run
MainDir == << <<"a","l",".","j","p","g">>,
              <<"b","o","b",".","P","N","G">>,
              <<"b","o","b",".","t","x","t">> >>

\* load_database run to completion on a listing: the entries in listing order
RECURSIVE LoadAll(_)
LoadAll(files) ==
    IF files = << >> THEN << >>
    ELSE (IF IsImageFile(Head(files)) THEN << FaceEntry(Head(files)) >> ELSE << >>)
         \o LoadAll(Tail(files))

\* ------------------------------------------------------------ values
Unknown == "Unknown"

\* current_results at import time
DefaultResults ==
    [identity |-> Unknown, gender |-> Unknown, emotion |-> Unknown, confidence |-> 0]


\* a text line drawn on a frame: << >> when not drawn, << value >> when drawn
NoText == << >>
NoLabels == [identity |-> NoText, gender |-> NoText, emotion |-> NoText,
             confidence |-> NoText]

\* ------------------------------------------------------------ state
VARIABLES
    recognition_active,  \* global recognition_active
    current_results,     \* global current_results (the dict it is bound to)
    camera,              \* global camera: None or the capture handle it is bound to
    hstate,              \* per capture handle: "none" | "open" | "unopened" | "released"
    known_faces,         \* fr_system.known_faces: the list object it is bound to
    lists,               \* the list objects: ListIds -> sequence of entries
    sess,                \* per /video_feed session: the generator's position and frame
    framesRead,          \* frames the camera has delivered so far
    pass,                \* per recognition thread: position and locals of recognize_face
    nLaunched,           \* threads started so far
    hnd,                 \* per control request slot: position in the handler, and the
                         \* response of the last request it served
    folder               \* the database folder: whether it exists, its listing, and
                         \* whether load_database has created it

vars == << recognition_active, current_results, camera, hstate, known_faces, lists,
           sess, framesRead, pass, nLaunched, hnd, folder >>

IdleSession ==
    [pc |-> "idle", frame |-> 0, faces |-> 0, region |-> 0, drawn |-> << >>,
     captured |-> << >>, emitted |-> << >>, exit |-> "none"]

IdlePass ==
    [pc |-> "idle", frame |-> 0, gender |-> Unknown, emotion |-> Unknown,
     identity |-> Unknown, confidence |-> 0, lst |-> None, idx |-> 0, erred |-> FALSE]

IdleHandler == [pc |-> "idle", kind |-> "none", i |-> 0, lst |-> None, resp |-> << >>]

\* State after import of app.py: the globals of lines 19-26, and fr_system
\* constructed, its load_database having filled known_faces from the folder.
Init ==
    /\ recognition_active = FALSE
    /\ current_results = DefaultResults
    /\ camera = None
    /\ hstate = [h \in Sessions |-> "none"]
    /\ known_faces = 1
    /\ lists = [l \in ListIds |-> IF l = 1 THEN LoadAll(MainDir) ELSE << >>]
    /\ sess = [s \in Sessions |-> IdleSession]
    /\ framesRead = 0
    /\ pass = [p \in Passes |-> IdlePass]
    /\ nLaunched = 0
    /\ hnd = [h \in Handlers |-> IdleHandler]
    /\ folder = [exists |-> TRUE, files |-> MainDir, made |-> FALSE]

\* ------------------------------------------------------------ generate_frames
SessionVarsOnly ==
    UNCHANGED << recognition_active, current_results, camera, hstate, known_faces,
                 lists, framesRead, pass, nLaunched, hnd, folder >>

\* The session record once an exception is raised inside the try block:
\* "except Exception" catches it and control reaches the finally clause.
Raised(r) == [r EXCEPT !.pc = "finally", !.exit = "raised"]

\* GET /video_feed: the Response wraps a new generator; its body has not run yet.
video_feed(s) ==
    /\ sess[s].pc = "idle"
    /\ sess' = [sess EXCEPT ![s].pc = "opening"]
    /\ SessionVarsOnly

\* camera = cv2.VideoCapture(0): a new handle, opened or not, bound to the global;
\* or the constructor raises and the global keeps its value.
OpenCamera(s) ==
    /\ sess[s].pc = "opening"
    /\ \/ /\ \E st \in {"open", "unopened"} : hstate' = [hstate EXCEPT ![s] = st]
          /\ camera' = s
          /\ sess' = [sess EXCEPT ![s].pc = "isOpened"]
       \/ /\ UNCHANGED << hstate, camera >>
          /\ sess' = [sess EXCEPT ![s] = Raised(@)]
    /\ UNCHANGED << recognition_active, current_results, known_faces, lists,
                    framesRead, pass, nLaunched, hnd, folder >>

\* a generator without the isOpened test of lines 146-147: it enters the loop
\* whatever the handle's state
CheckOpenedSkipped(s) ==
    /\ sess[s].pc = "isOpened"
    /\ sess' = [sess EXCEPT ![s].pc = "read"]
    /\ SessionVarsOnly

\* if not camera.isOpened(): return      (camera is the global, read again)
CheckOpened(s) ==
    /\ sess[s].pc = "isOpened"
    /\ sess' = IF hstate[camera] = "open"
               THEN [sess EXCEPT ![s].pc = "read"]
               ELSE [sess EXCEPT ![s].pc = "finally", ![s].exit = "not_opened"]
    /\ SessionVarsOnly

\* success, frame = camera.read() on the handle the global names, then flip,
\* cvtColor and detectMultiScale(gray, 1.1, 4) on the frame just read.  The
\* generator is resumed here after each yield.  faceCounts are the numbers of
\* regions the detector may return for what the camera sees.
ReadFrame(s, faceCounts) ==
    /\ sess[s].pc \in {"read", "yield"}
    /\ \/ \* a frame is delivered and k regions are detected
          /\ hstate[camera] = "open"
          /\ framesRead < MaxFrames
          /\ framesRead' = framesRead + 1
          /\ \E k \in faceCounts :
               sess' = [sess EXCEPT ![s].pc = IF k > 0 THEN "rect" ELSE "dispatch",
                                    ![s].frame = framesRead + 1,
                                    ![s].faces = k,
                                    ![s].region = IF k > 0 THEN 1 ELSE 0,
                                    ![s].captured = Append(@, framesRead + 1)]
       \/ \* a frame is delivered and the detection raises
          /\ hstate[camera] = "open"
          /\ framesRead < MaxFrames
          /\ framesRead' = framesRead + 1
          /\ sess' = [sess EXCEPT ![s] =
                        Raised([@ EXCEPT !.captured = Append(@, framesRead + 1)])]
       \/ \* success is False: break
          /\ UNCHANGED framesRead
          /\ sess' = [sess EXCEPT ![s].pc = "finally", ![s].exit = "read_failed"]
    /\ UNCHANGED << recognition_active, current_results, camera, hstate, known_faces,
                    lists, pass, nLaunched, hnd, folder >>

\* the generator's position after the last text line of a region
NextRegion(s) == IF sess[s].region < sess[s].faces THEN "rect" ELSE "dispatch"

\* cv2.rectangle for the region, then  if recognition_active:
DrawRectangle(s) ==
    /\ sess[s].pc = "rect"
    /\ IF recognition_active
       THEN sess' = [sess EXCEPT ![s].pc = "identity",
                                 ![s].drawn = Append(@, NoLabels)]
       ELSE sess' = [sess EXCEPT ![s].pc = NextRegion(s),
                                 ![s].region = @ + 1,
                                 ![s].drawn = Append(@, NoLabels)]
    /\ SessionVarsOnly

\* putText(f"Identity: {current_results['identity']}")
DrawIdentity(s) ==
    /\ sess[s].pc = "identity"
    /\ sess' = [sess EXCEPT ![s].pc = "gender",
                  ![s].drawn[sess[s].region].identity = << current_results.identity >>]
    /\ SessionVarsOnly

\* putText(f"Gender: {current_results['gender']}")
DrawGender(s) ==
    /\ sess[s].pc = "gender"
    /\ sess' = [sess EXCEPT ![s].pc = "emotion",
                  ![s].drawn[sess[s].region].gender = << current_results.gender >>]
    /\ SessionVarsOnly

\* putText(f"Emotion: {current_results['emotion']}")
DrawEmotion(s) ==
    /\ sess[s].pc = "emotion"
    /\ sess' = [sess EXCEPT ![s].pc = "confidence",
                  ![s].drawn[sess[s].region].emotion = << current_results.emotion >>]
    /\ SessionVarsOnly

\* if current_results['confidence'] > 0:
TestConfidence(s) ==
    /\ sess[s].pc = "confidence"
    /\ IF current_results.confidence > 0
       THEN sess' = [sess EXCEPT ![s].pc = "confidenceText"]
       ELSE sess' = [sess EXCEPT ![s].pc = NextRegion(s), ![s].region = @ + 1]
    /\ SessionVarsOnly

\* putText(f"Confidence: {current_results['confidence']}%")
DrawConfidence(s) ==
    /\ sess[s].pc = "confidenceText"
    /\ sess' = [sess EXCEPT ![s].pc = NextRegion(s), ![s].region = @ + 1,
                  ![s].drawn[sess[s].region].confidence = << current_results.confidence >>]
    /\ SessionVarsOnly

\* a dispatch condition that does not look at recognition_active
ShouldLaunchAnyMode(s) == sess[s].faces > 0

\* a dispatch condition that does not look at the detected regions
ShouldLaunchAnyFrame(s) == recognition_active

\* the condition of line 182 (fr_system is set in every state of this model)
ShouldLaunch(s) == recognition_active /\ sess[s].faces > 0

\* a dispatch that joins the threads started earlier before it goes on (the
\* code never joins a thread)
DispatchJoin(s) ==
    /\ sess[s].pc = "dispatch"
    /\ \A p \in 1..nLaunched : pass[p].pc = "done"
    /\ sess' = [sess EXCEPT ![s].pc = "encode"]
    /\ IF recognition_active /\ sess[s].faces > 0
       THEN /\ nLaunched' = nLaunched + 1
            /\ pass' = [pass EXCEPT ![nLaunched + 1].pc = "analyze",
                                    ![nLaunched + 1].frame = sess[s].frame]
       ELSE UNCHANGED << nLaunched, pass >>
    /\ UNCHANGED << recognition_active, current_results, camera, hstate, known_faces,
                    lists, framesRead, hnd, folder >>

\* if recognition_active and len(faces) > 0 and fr_system: Thread(...).start()
Dispatch(s) ==
    /\ sess[s].pc = "dispatch"
    /\ sess' = [sess EXCEPT ![s].pc = "encode"]
    /\ IF ShouldLaunch(s)
       THEN /\ nLaunched' = nLaunched + 1
            /\ pass' = [pass EXCEPT ![nLaunched + 1].pc = "analyze",
                                    ![nLaunched + 1].frame = sess[s].frame]
       ELSE UNCHANGED << nLaunched, pass >>
    /\ UNCHANGED << recognition_active, current_results, camera, hstate, known_faces,
                    lists, framesRead, hnd, folder >>

\* a loop body that goes back to the read without yielding the chunk
EmitChunkDropped(s) ==
    /\ sess[s].pc = "encode"
    /\ sess' = [sess EXCEPT ![s].pc = "yield", ![s].frame = 0, ![s].faces = 0,
                            ![s].region = 0, ![s].drawn = << >>]
    /\ SessionVarsOnly

\* cv2.imencode, buffer.tobytes() and the yield of the multipart chunk, after
\* which the frame is gone; or the encoding raises.
EmitChunk(s) ==
    /\ sess[s].pc = "encode"
    /\ \/ sess' = [sess EXCEPT ![s].pc = "yield",
                               ![s].emitted = Append(@, sess[s].frame),
                               ![s].frame = 0, ![s].faces = 0, ![s].region = 0,
                               ![s].drawn = << >>]
       \/ sess' = [sess EXCEPT ![s] = Raised(@)]
    /\ SessionVarsOnly

\* the client went away: the suspended generator is closed (GeneratorExit at the
\* yield, which "except Exception" does not catch), and the finally clause runs.
Disconnect(s) ==
    /\ sess[s].pc = "yield"
    /\ sess' = [sess EXCEPT ![s].pc = "finally", ![s].exit = "disconnected"]
    /\ SessionVarsOnly

\* finally: if camera: camera.release()    on the handle the global names now;
\* release() of a handle that holds no device changes nothing.
Finally(s) ==
    /\ sess[s].pc = "finally"
    /\ hstate' = IF camera # None /\ hstate[camera] = "open"
                 THEN [hstate EXCEPT ![camera] = "released"]
                 ELSE hstate
    /\ sess' = [sess EXCEPT ![s].pc = "closed", ![s].frame = 0, ![s].faces = 0,
                            ![s].region = 0, ![s].drawn = << >>]
    /\ UNCHANGED << recognition_active, current_results, camera, known_faces, lists,
                    framesRead, pass, nLaunched, hnd, folder >>

\* A handle the global no longer names has no reference left; the runtime may
\* finalise it, which releases its device, at once, later or not before exit.
Finalize(h) ==
    /\ hstate[h] = "open"
    /\ camera # h
    /\ hstate' = [hstate EXCEPT ![h] = "released"]
    /\ UNCHANGED << recognition_active, current_results, camera, known_faces, lists,
                    sess, framesRead, pass, nLaunched, hnd, folder >>

\* the steps of the loop body that draw on the frame: for (x, y, w, h) in faces
Annotate(s) ==
    \/ DrawRectangle(s) \/ DrawIdentity(s) \/ DrawGender(s) \/ DrawEmotion(s)
    \/ TestConfidence(s) \/ DrawConfidence(s)

\* the other steps of the generator
Stream(s, faceCounts) ==
    \/ OpenCamera(s) \/ CheckOpened(s) \/ ReadFrame(s, faceCounts)
    \/ Dispatch(s) \/ EmitChunk(s) \/ Disconnect(s) \/ Finally(s)

generate_frames(s) == Stream(s, 0..MaxFaces) \/ Annotate(s)

\* ------------------------------------------------------------ the oracle
\* per-face results of DeepFace.analyze
FaceA == [dominant_gender |-> "Man", dominant_emotion |-> "happy"]
FaceB == [dominant_gender |-> "Woman", dominant_emotion |-> "sad"]
FaceC == [dominant_gender |-> "Man", dominant_emotion |-> "angry"]

\* what DeepFace.analyze may return: a list of per-face dicts (possibly empty), or
\* one dict (older releases)
AnalyzeReturns ==
    { [isList |-> TRUE,  val |-> << FaceA >>],
      [isList |-> TRUE,  val |-> << FaceB, FaceC >>],
      [isList |-> TRUE,  val |-> << >>],
      [isList |-> FALSE, val |-> FaceA] }

\* distances DeepFace.verify may report, in units of 1/100000
Distances == {20000}

\* the outcomes of a call of DeepFace.verify that returns, when its verified
\* answers report the given distances
VerifyAnswers(distances) ==
    { [raised |-> FALSE, verified |-> FALSE, distance |-> 80000] }
    \cup { [raised |-> FALSE, verified |-> TRUE, distance |-> d] : d \in distances }

\* the outcome of a call of DeepFace.verify that raises
VerifyRaises == [raised |-> TRUE, verified |-> FALSE, distance |-> 0]

\* the outcomes of DeepFace.verify with a verifier that works
VerifyReturns == VerifyAnswers(Distances)

\* dict.get(key, default)
DictGet(d, key, default) == IF key \in DOMAIN d THEN d[key] ELSE default

\* (1 - result['distance']) * 100, in thousandths of a percent
RawConfidence(distance) == 100000 - distance

\* round(confidence, 2): thousandths of a percent to hundredths, ties to even
Round2(x) ==
    LET q == x \div 10
        r == x % 10
    IN  IF r < 5 THEN q
        ELSE IF r > 5 THEN q + 1
        ELSE IF q % 2 = 0 THEN q ELSE q + 1

\* ------------------------------------------------------------ list objects
\* list objects the store, an iterating pass or an appending request refers to
Referenced(kf, ps, hs) ==
    {kf} \cup { ps[p].lst : p \in { q \in Passes : ps[q].pc = "next" } }
         \cup { hs[h].lst : h \in { g \in Handlers : hs[g].pc = "append" } }

\* the object a fresh [] gets: the first one nothing refers to
FreshList ==
    CHOOSE l \in ListIds :
       /\ l \notin Referenced(known_faces, pass, hnd)
       /\ \A m \in ListIds : m < l => m \in Referenced(known_faces, pass, hnd)

\* objects nothing refers to are reclaimed
Reclaim(ls, kf, ps, hs) ==
    [l \in ListIds |-> IF l \in Referenced(kf, ps, hs) THEN ls[l] ELSE << >>]

\* ------------------------------------------------------------ recognize_face
PassVarsOnly ==
    UNCHANGED << recognition_active, current_results, camera, hstate, known_faces,
                 lists, sess, framesRead, nLaunched, hnd, folder >>

\* the dict recognize_face builds at lines 114-119 from its locals
Outcome(r) ==
    [identity |-> r.identity, gender |-> r.gender,
     emotion |-> r.emotion, confidence |-> Round2(r.confidence)]

\* a pass that publishes only inside  if len(self.known_faces) > 0:  and so
\* ends without publishing when the store is empty
AnalyzeSkipsEmptyStore(p) ==
    /\ pass[p].pc = "analyze"
    /\ \E a \in AnalyzeReturns :
         /\ ~(a.isList /\ a.val = << >>)
         /\ LET analysis == IF a.isList THEN a.val[1] ELSE a.val IN
            pass' = [pass EXCEPT
                       ![p].pc = IF Len(lists[known_faces]) > 0 THEN "iter" ELSE "done",
                       ![p].gender = DictGet(analysis, "dominant_gender", Unknown),
                       ![p].emotion = DictGet(analysis, "dominant_emotion", Unknown),
                       ![p].identity = Unknown,
                       ![p].confidence = 0]
    /\ PassVarsOnly

\* a pass that takes the last per-face result of a list instead of analysis[0]
AnalyzeLastFace(p) ==
    /\ pass[p].pc = "analyze"
    /\ \E a \in AnalyzeReturns :
         /\ ~(a.isList /\ a.val = << >>)
         /\ LET analysis == IF a.isList THEN a.val[Len(a.val)] ELSE a.val IN
            pass' = [pass EXCEPT
                       ![p].pc = IF Len(lists[known_faces]) > 0 THEN "iter" ELSE "publish",
                       ![p].gender = DictGet(analysis, "dominant_gender", Unknown),
                       ![p].emotion = DictGet(analysis, "dominant_emotion", Unknown),
                       ![p].identity = Unknown,
                       ![p].confidence = 0]
    /\ PassVarsOnly

\* DeepFace.analyze returns: analysis[0] for a list, the two .get calls, identity
\* and confidence initialised, then  if len(self.known_faces) > 0:
Analyze(p) ==
    /\ pass[p].pc = "analyze"
    /\ \E a \in AnalyzeReturns :
         /\ ~(a.isList /\ a.val = << >>)
         /\ LET analysis == IF a.isList THEN a.val[1] ELSE a.val IN
            pass' = [pass EXCEPT
                       ![p].pc = IF Len(lists[known_faces]) > 0 THEN "iter" ELSE "publish",
                       ![p].gender = DictGet(analysis, "dominant_gender", Unknown),
                       ![p].emotion = DictGet(analysis, "dominant_emotion", Unknown),
                       ![p].identity = Unknown,
                       ![p].confidence = 0]
    /\ PassVarsOnly

\* a pass without the outer except clause of lines 121-128: the exception ends
\* the thread and nothing is published
AnalyzeFailsSilently(p) ==
    /\ pass[p].pc = "analyze"
    /\ pass' = [pass EXCEPT ![p].pc = "done"]
    /\ PassVarsOnly

\* DeepFace.analyze raises, or returns an empty list and analysis[0] raises
\* IndexError: the outer except clause binds current_results to the all-Unknown
\* dict.
AnalyzeFails(p) ==
    /\ pass[p].pc = "analyze"
    /\ \/ TRUE
       \/ \E a \in AnalyzeReturns : a.isList /\ a.val = << >>
    /\ current_results' = DefaultResults
    /\ pass' = [pass EXCEPT ![p].pc = "done"]
    /\ UNCHANGED << recognition_active, camera, hstate, known_faces, lists, sess,
                    framesRead, nLaunched, hnd, folder >>

\* for known_face in self.known_faces:   the iterator is made over the list
\* object the attribute names at this moment
StartIter(p) ==
    /\ pass[p].pc = "iter"
    /\ pass' = [pass EXCEPT ![p].pc = "next", ![p].lst = known_faces, ![p].idx = 1]
    /\ PassVarsOnly

\* a loop that looks for the best match: a verified answer is kept when it is
\* the first or the closest so far, and the loop goes on to the end of the list
SearchBest(p, answers) ==
    /\ pass[p].pc = "next"
    /\ LET l == pass[p].lst
           i == pass[p].idx
       IN  IF i > Len(lists[l])
           THEN pass' = [pass EXCEPT ![p].pc = "publish", ![p].lst = None, ![p].idx = 0]
           ELSE \E r \in answers :
                   IF r.raised
                   THEN pass' = [pass EXCEPT ![p].idx = i + 1, ![p].erred = TRUE]
                   ELSE IF r.verified /\ (pass[p].identity = Unknown
                                            \/ RawConfidence(r.distance) > pass[p].confidence)
                   THEN pass' = [pass EXCEPT
                                   ![p].idx = i + 1,
                                   ![p].identity = lists[l][i].name,
                                   ![p].confidence = RawConfidence(r.distance)]
                   ELSE pass' = [pass EXCEPT ![p].idx = i + 1]
    /\ lists' = Reclaim(lists, known_faces, pass', hnd)
    /\ UNCHANGED << recognition_active, current_results, camera, hstate, known_faces,
                    sess, framesRead, nLaunched, hnd, folder >>

\* a loop without the inner try of lines 97-110: an exception of the verifier
\* ends the loop (it is caught at line 111) and the pass publishes what it has
SearchAbort(p, answers) ==
    /\ pass[p].pc = "next"
    /\ LET l == pass[p].lst
           i == pass[p].idx
       IN  IF i > Len(lists[l])
           THEN pass' = [pass EXCEPT ![p].pc = "publish", ![p].lst = None, ![p].idx = 0]
           ELSE \E r \in answers :
                   IF r.raised
                   THEN pass' = [pass EXCEPT ![p].pc = "publish", ![p].lst = None,
                                             ![p].idx = 0, ![p].erred = TRUE]
                   ELSE IF r.verified
                   THEN pass' = [pass EXCEPT
                                   ![p].pc = "publish", ![p].lst = None, ![p].idx = 0,
                                   ![p].identity = lists[l][i].name,
                                   ![p].confidence = RawConfidence(r.distance)]
                   ELSE pass' = [pass EXCEPT ![p].idx = i + 1]
    /\ lists' = Reclaim(lists, known_faces, pass', hnd)
    /\ UNCHANGED << recognition_active, current_results, camera, hstate, known_faces,
                    sess, framesRead, nLaunched, hnd, folder >>

\* one turn of the loop: the iterator yields the element at its index if the list
\* has one now, DeepFace.verify has one of the given outcomes, and a verified
\* answer sets identity and confidence and breaks.  erred tells that
\* an exception of the verifier has been swallowed in this pass.
Search(p, answers) ==
    /\ pass[p].pc = "next"
    /\ LET l == pass[p].lst
           i == pass[p].idx
       IN  IF i > Len(lists[l])
           THEN pass' = [pass EXCEPT ![p].pc = "publish", ![p].lst = None, ![p].idx = 0]
           ELSE \E r \in answers :
                   IF r.raised
                   THEN \* except Exception as verify_error: continue
                        pass' = [pass EXCEPT ![p].idx = i + 1, ![p].erred = TRUE]
                   ELSE IF r.verified
                   THEN pass' = [pass EXCEPT
                                   ![p].pc = "publish", ![p].lst = None, ![p].idx = 0,
                                   ![p].identity = lists[l][i].name,
                                   ![p].confidence = RawConfidence(r.distance)]
                   ELSE pass' = [pass EXCEPT ![p].idx = i + 1]
    /\ lists' = Reclaim(lists, known_faces, pass', hnd)
    /\ UNCHANGED << recognition_active, current_results, camera, hstate, known_faces,
                    sess, framesRead, nLaunched, hnd, folder >>

\* a publication gated by launch order: a pass does not overwrite what a pass
\* launched after it has published
PublishIfNewer(p) ==
    /\ pass[p].pc = "publish"
    /\ current_results' = IF \E q \in Passes : q > p /\ pass[q].pc = "done"
                          THEN current_results
                          ELSE Outcome(pass[p])
    /\ pass' = [pass EXCEPT ![p].pc = "done"]
    /\ UNCHANGED << recognition_active, camera, hstate, known_faces, lists, sess,
                    framesRead, nLaunched, hnd, folder >>

\* a publication that updates the shared dict in place, identity and confidence
\* first (the code binds the global to a new dict instead)
PublishInPlace(p) ==
    /\ pass[p].pc = "publish"
    /\ current_results' = [current_results EXCEPT
                             !.identity = pass[p].identity,
                             !.confidence = Round2(pass[p].confidence)]
    /\ pass' = [pass EXCEPT ![p].pc = "done"]
    /\ UNCHANGED << recognition_active, camera, hstate, known_faces, lists, sess,
                    framesRead, nLaunched, hnd, folder >>

\* current_results = {...}: the global is bound to the new dict
Publish(p) ==
    /\ pass[p].pc = "publish"
    /\ current_results' = Outcome(pass[p])
    /\ pass' = [pass EXCEPT ![p].pc = "done"]
    /\ UNCHANGED << recognition_active, camera, hstate, known_faces, lists, sess,
                    framesRead, nLaunched, hnd, folder >>

IterStep(p) == Search(p, VerifyReturns)

\* the steps of a pass other than the turns of its loop
PassSteps(p) == Analyze(p) \/ AnalyzeFails(p) \/ StartIter(p) \/ Publish(p)

recognize_face(p) == PassSteps(p) \/ IterStep(p)

\* ------------------------------------------------------------ load_database
HandlerVarsOnly ==
    UNCHANGED << recognition_active, current_results, camera, hstate, known_faces,
                 lists, sess, framesRead, pass, nLaunched, folder >>

\* the files of a listing from position i on that load_database appends
RECURSIVE NextImage(_, _)
NextImage(files, i) ==
    IF i > Len(files) \/ IsImageFile(files[i]) THEN i ELSE NextImage(files, i + 1)

\* a load_database without lines 52-54: an absent folder is left absent
MakeDirsSkipped(f) == f

\* if not os.path.exists(path): os.makedirs(path, exist_ok=True)
\* made records that this process created the folder
MakeDirs(f) == [f EXCEPT !.exists = TRUE, !.made = f.made \/ ~f.exists]

\* a load_database without line 50: the list the attribute names is kept and
\* appended to
LoadClearKeeping(h) ==
    /\ hnd[h].pc = "clear"
    /\ UNCHANGED << known_faces, lists >>
    /\ \/ /\ hnd' = [hnd EXCEPT ![h].pc = "file", ![h].i = NextImage(folder.files, 1)]
          /\ folder' = MakeDirs(folder)
       \/ /\ hnd' = [hnd EXCEPT ![h].pc = "respond"]
          /\ UNCHANGED folder
    /\ UNCHANGED << recognition_active, current_results, camera, hstate, sess,
                    framesRead, pass, nLaunched >>

\* a load_database that binds the new list only once the listing is there: when
\* os.makedirs or os.listdir raises the store keeps the list it had
ClearAfterListing(h, outcomes) ==
    /\ hnd[h].pc = "clear"
    /\ \E o \in outcomes :
          IF o = "listed"
          THEN /\ known_faces' = FreshList
               /\ lists' = Reclaim([lists EXCEPT ![FreshList] = << >>], FreshList,
                                   pass, hnd)
               /\ hnd' = [hnd EXCEPT ![h].pc = "file",
                                     ![h].i = NextImage(folder.files, 1)]
               /\ folder' = MakeDirs(folder)
          ELSE /\ UNCHANGED << known_faces, lists >>
               /\ hnd' = [hnd EXCEPT ![h].pc = "respond"]
               /\ folder' \in {folder, MakeDirs(folder)}
    /\ UNCHANGED << recognition_active, current_results, camera, hstate, sess,
                    framesRead, pass, nLaunched >>

\* self.known_faces = [], then os.path.exists / os.makedirs / os.listdir with
\* one of the given outcomes: "listed", the folder is made if absent and its
\* listing is taken; "raised", os.makedirs or os.listdir raises and the
\* exception goes to the except clause of load_database, which returns.
Clear(h, outcomes) ==
    /\ hnd[h].pc = "clear"
    /\ known_faces' = FreshList
    /\ lists' = Reclaim([lists EXCEPT ![FreshList] = << >>], FreshList, pass, hnd)
    /\ \E o \in outcomes :
          IF o = "listed"
          THEN /\ hnd' = [hnd EXCEPT ![h].pc = "file",
                                     ![h].i = NextImage(folder.files, 1)]
               /\ folder' = MakeDirs(folder)
          ELSE /\ hnd' = [hnd EXCEPT ![h].pc = "respond"]
               /\ folder' \in {folder, MakeDirs(folder)}
    /\ UNCHANGED << recognition_active, current_results, camera, hstate, sess,
                    framesRead, pass, nLaunched >>

\* the file system may fail at any load
LoadClear(h) == Clear(h, {"listed", "raised"})

\* for filename in ...: for the next image file of the listing the path and the
\* name are computed and self.known_faces is evaluated: the request holds the
\* list object the attribute names now; after the last file load_database
\* returns.
LoadFile(h) ==
    /\ hnd[h].pc = "file"
    /\ hnd' = IF hnd[h].i > Len(folder.files)
              THEN [hnd EXCEPT ![h].pc = "respond", ![h].i = 0]
              ELSE [hnd EXCEPT ![h].pc = "append", ![h].lst = known_faces]
    /\ HandlerVarsOnly

\* .append({'name': name, 'path': filepath}) on the list object evaluated before
LoadAppend(h) ==
    /\ hnd[h].pc = "append"
    /\ hnd' = [hnd EXCEPT ![h].pc = "file", ![h].lst = None,
                          ![h].i = NextImage(folder.files, hnd[h].i + 1)]
    /\ lists' = Reclaim([lists EXCEPT ![hnd[h].lst] =
                                        Append(@, FaceEntry(folder.files[hnd[h].i]))],
                        known_faces, pass, hnd')
    /\ UNCHANGED << recognition_active, current_results, camera, hstate, known_faces,
                    sess, framesRead, pass, nLaunched, folder >>

load_database(h) == LoadClear(h) \/ LoadFile(h) \/ LoadAppend(h)

\* ------------------------------------------------------------ control routes
\* GET /start_recognition: recognition_active = True, then load_database
start_recognition(h) ==
    /\ hnd[h].pc = "idle"
    /\ recognition_active' = TRUE
    /\ hnd' = [hnd EXCEPT ![h].pc = "clear", ![h].kind = "start", ![h].resp = << >>]
    /\ UNCHANGED << current_results, camera, hstate, known_faces, lists, sess,
                    framesRead, pass, nLaunched, folder >>

\* a /reload_database that, like /start_recognition, turns recognition on
ReloadAndEnable(h) ==
    /\ hnd[h].pc = "idle"
    /\ recognition_active' = TRUE
    /\ hnd' = [hnd EXCEPT ![h].pc = "clear", ![h].kind = "reload", ![h].resp = << >>]
    /\ UNCHANGED << current_results, camera, hstate, known_faces, lists, sess,
                    framesRead, pass, nLaunched, folder >>

\* GET /reload_database: load_database
reload_database(h) ==
    /\ hnd[h].pc = "idle"
    /\ hnd' = [hnd EXCEPT ![h].pc = "clear", ![h].kind = "reload", ![h].resp = << >>]
    /\ HandlerVarsOnly

\* the jsonify of the two routes once load_database has returned
Respond(h) ==
    /\ hnd[h].pc = "respond"
    /\ hnd' = [hnd EXCEPT
                 ![h].pc = "idle", ![h].i = 0,
                 ![h].resp = IF hnd[h].kind = "start"
                             THEN << [status |-> "Recognition started"] >>
                             ELSE << [status |-> "Database reloaded",
                                      faces |-> Len(lists[known_faces])] >>]
    /\ HandlerVarsOnly

\* a /stop_recognition that also resets the snapshot to the defaults
StopAndReset(h) ==
    /\ hnd[h].pc = "idle"
    /\ recognition_active' = FALSE
    /\ current_results' = DefaultResults
    /\ hnd' = [hnd EXCEPT ![h].kind = "stop",
                          ![h].resp = << [status |-> "Recognition stopped"] >>]
    /\ UNCHANGED << camera, hstate, known_faces, lists, sess,
                    framesRead, pass, nLaunched, folder >>

\* GET /stop_recognition
stop_recognition(h) ==
    /\ hnd[h].pc = "idle"
    /\ recognition_active' = FALSE
    /\ hnd' = [hnd EXCEPT ![h].kind = "stop",
                          ![h].resp = << [status |-> "Recognition stopped"] >>]
    /\ UNCHANGED << current_results, camera, hstate, known_faces, lists, sess,
                    framesRead, pass, nLaunched, folder >>

\* GET /get_results: jsonify(current_results)
get_results(h) ==
    /\ hnd[h].pc = "idle"
    /\ hnd' = [hnd EXCEPT ![h].kind = "results", ![h].resp = << current_results >>]
    /\ HandlerVarsOnly

\* ------------------------------------------------------------ the system
\* One client watches the feed; the camera sees up to MaxFaces faces; recognition
\* is started, stopped and polled while passes run beside the loop.
Next ==
    \/ \E s \in {1} : video_feed(s) \/ generate_frames(s)
    \/ \E p \in Passes : recognize_face(p)
    \/ \E h \in {1} :
         \/ start_recognition(h) \/ load_database(h) \/ Respond(h)
         \/ stop_recognition(h) \/ get_results(h)

Spec == Init /\ [][Next]_vars

\* Several clients watch the feed at once; the camera never sees a face; every
\* control route is used.
NextFeeds ==
    \/ \E s \in Sessions : video_feed(s) \/ Stream(s, {0})
    \/ \E h \in Sessions : Finalize(h)
    \/ \E h \in {1} :
         \/ start_recognition(h) \/ reload_database(h) \/ load_database(h) \/ Respond(h)
         \/ stop_recognition(h) \/ get_results(h)

SpecFeeds == Init /\ [][NextFeeds]_vars

\* ------------------------------------------------------------ claims
\* passes that have bound current_results
Completed == { p \in Passes : pass[p].pc = "done" }

\* every dict current_results has been bound to so far
Published == {DefaultResults} \cup { Outcome(pass[p]) : p \in Completed }

\* two dicts that differ in every field
DistinctInFull(a, b) ==
    /\ a.identity # b.identity /\ a.gender # b.gender
    /\ a.emotion # b.emotion /\ a.confidence # b.confidence

\* C1: with concurrent passes, the shared snapshot is at every moment the startup
\* default or the complete outcome of one completed pass, never a field-wise mix,
\* and once every launched pass has completed it is the outcome of one of them.
C1_SnapshotIsOneOutcome ==
    /\ current_results \in Published
    /\ (nLaunched > 0 /\ \A p \in 1..nLaunched : p \in Completed)
          => \E p \in 1..nLaunched : current_results = Outcome(pass[p])

\* two passes that overlapped have completed with outcomes that differ in every
\* field, and the one launched first published last
C1_Witness ==
    /\ nLaunched = 2 /\ Completed = {1, 2}
    /\ DistinctInFull(Outcome(pass[1]), Outcome(pass[2]))
    /\ current_results = Outcome(pass[1])

\* the text lines of one region all come from the dict v
LabelsFrom(d, v) ==
    /\ d.identity \in {NoText, << v.identity >>}
    /\ d.gender \in {NoText, << v.gender >>}
    /\ d.emotion \in {NoText, << v.emotion >>}
    /\ d.confidence \in {NoText, << v.confidence >>}

\* C2: the labels drawn on a frame, over all its regions, all come from one
\* complete published snapshot, and every /get_results body is one complete
\* published snapshot.
C2_ReadersSeeOneSnapshot ==
    /\ \A s \in Sessions :
         \E v \in Published :
            \A i \in 1..Len(sess[s].drawn) : LabelsFrom(sess[s].drawn[i], v)
    /\ \A h \in Handlers :
         (hnd[h].kind = "results" /\ hnd[h].resp # << >>) => hnd[h].resp[1] \in Published

\* C3: a pass is launched exactly by a dispatch step taken while
\* recognition_active is true for a frame with at least one region, one pass per
\* such step; no other step launches a pass.
C3_LaunchIffEnabledAndFace ==
    [][ /\ nLaunched' \in {nLaunched, nLaunched + 1}
        /\ (nLaunched' = nLaunched + 1) <=>
              \E s \in Sessions :
                 /\ sess[s].pc = "dispatch" /\ sess'[s].pc = "encode"
                 /\ recognition_active /\ sess[s].faces > 0
        /\ \A s \in Sessions :
              (sess[s].pc = "dispatch" /\ sess'[s].pc = "encode"
                 /\ recognition_active /\ sess[s].faces > 0)
              => /\ nLaunched' = nLaunched + 1
                 /\ pass'[nLaunched'].pc = "analyze"
                 /\ pass'[nLaunched'].frame = sess[s].frame ]_vars

\* a pass has just been launched for the frame in hand, and an earlier frame
\* went out without one
C3_Witness ==
    /\ sess[1].pc = "encode" /\ sess[1].faces > 0
    /\ nLaunched = 1 /\ pass[1].pc = "analyze" /\ pass[1].frame = sess[1].frame
    /\ sess[1].frame = 2

\* C4: while no streamed frame has a detected face, whatever control requests
\* are made, no pass has been launched, the snapshot is the startup default and
\* every /get_results body is that default.
C4_NoFaceKeepsDefaults ==
    /\ nLaunched = 0
    /\ \A p \in Passes : pass[p].pc = "idle"
    /\ current_results = DefaultResults
    /\ \A h \in Handlers :
         (hnd[h].kind = "results" /\ hnd[h].resp # << >>)
            => hnd[h].resp = << [identity |-> "Unknown", gender |-> "Unknown",
                                 emotion |-> "Unknown", confidence |-> 0] >>

\* recognition is on, the store has been reloaded, frames without a face have
\* been streamed, and /get_results has just answered
C4_Witness ==
    /\ recognition_active
    /\ known_faces # 1
    /\ \E s \in Sessions : Len(sess[s].emitted) = MaxFrames
    /\ \E h \in Handlers : hnd[h].kind = "results" /\ hnd[h].resp = << DefaultResults >>

\* ------------------------------------------------------------ sessions
\* the generator is inside its while loop
InLoop(s) ==
    sess[s].pc \in {"read", "rect", "identity", "gender", "emotion", "confidence",
                    "confidenceText", "dispatch", "encode", "yield"}

\* the generator holds a frame it has read and not yet emitted
FrameInHand(s) == InLoop(s) /\ sess[s].frame # 0

\* the generator is between two frames
BetweenFrames(s) == sess[s].pc \in {"read", "yield"}

\* exits of a session caused by a failure
FailureExits == {"not_opened", "read_failed", "raised"}

\* s is a prefix of t
IsPrefix(s, t) == Len(s) <= Len(t) /\ SubSeq(t, 1, Len(s)) = s

\* One client watches the feed while recognition is on.  The generator's thread
\* is scheduled whenever it can take a step; nothing is assumed about the
\* passes: a thread inside DeepFace.analyze or DeepFace.verify may stay there
\* for ever.
NextLive ==
    \/ \E s \in {1} : video_feed(s) \/ generate_frames(s)
    \/ \E p \in Passes : recognize_face(p)
    \/ \E h \in {1} : start_recognition(h) \/ load_database(h) \/ Respond(h)

SpecLive == Init /\ [][NextLive]_vars /\ WF_vars(generate_frames(1))

\* the elements of a sequence
Range(q) == { q[i] : i \in 1..Len(q) }

\* C5: the loop never waits on a pass: whatever the launched passes do, also if
\* they never return, a frame the generator has read is eventually emitted as a
\* chunk (unless the loop body raises), and in every position of the loop the
\* generator has a step it can take at once.
C5_LoopNeverWaits ==
    /\ \A f \in 1..MaxFrames :
         (sess[1].frame = f) ~> (f \in Range(sess[1].emitted) \/ sess[1].exit = "raised")
    /\ [](InLoop(1) => ENABLED generate_frames(1))

\* the second frame has gone out while the passes launched for both frames are
\* still inside the oracle
C5_Witness ==
    /\ Len(sess[1].emitted) = 2
    /\ nLaunched = 2
    /\ \A p \in 1..2 : pass[p].pc \in {"analyze", "next"}

\* C6: a session that acquired the capture device (its VideoCapture opened) has
\* released that device by the time it is Closed, whatever its exit path.
C6_ReleasedWhenClosed ==
    \A s \in Sessions : sess[s].pc = "closed" => hstate[s] # "open"

\* C7: the failure of one session stays in that session: the finally clause of a
\* session that failed does not release the device of another session that is
\* inside its loop, and the reads of a session that is Streaming are never
\* directed to the handle another session failed to open.
C7_FailureIsLocal ==
    /\ [][ \A t \in Sessions :
             (sess[t].pc = "finally" /\ sess'[t].pc = "closed"
                /\ sess[t].exit \in FailureExits)
             => \A s \in Sessions \ {t} : InLoop(s) => hstate'[s] = hstate[s] ]_vars
    /\ [](\A s \in Sessions : \A t \in Sessions \ {s} :
             (BetweenFrames(s) /\ hstate[t] = "unopened") => camera # t)

\* no VideoCapture of this run has opened the device
DeviceAbsent == \A h \in Sessions : hstate[h] \in {"none", "unopened"}

\* a request can be made on an idle slot, and a request under way can go on
RoutesAnswer ==
    \A h \in Handlers :
       IF hnd[h].pc = "idle"
       THEN /\ ENABLED get_results(h) /\ ENABLED start_recognition(h)
            /\ ENABLED stop_recognition(h) /\ ENABLED reload_database(h)
       ELSE ENABLED (load_database(h) \/ Respond(h))

\* C8: when the device cannot be opened, a session goes from Opening to Closed
\* without entering the loop and without a chunk, its exit is the return of
\* line 147 or an exception the except clause caught, and the control routes
\* keep answering.
C8_AbsentCameraClosesAtOnce ==
    DeviceAbsent =>
       /\ \A s \in Sessions :
            /\ sess[s].pc \in {"idle", "opening", "isOpened", "finally", "closed"}
            /\ sess[s].emitted = << >> /\ sess[s].captured = << >>
            /\ sess[s].exit \in {"none", "not_opened", "raised"}
            /\ sess[s].pc \in {"finally", "closed"} <=> sess[s].exit # "none"
       /\ RoutesAnswer

\* a session is Closed because its VideoCapture did not open, and after that
\* /reload_database has answered
C8_Witness ==
    /\ DeviceAbsent
    /\ \E s \in Sessions :
         /\ sess[s].pc = "closed" /\ sess[s].exit = "not_opened"
         /\ hstate[s] = "unopened" /\ sess[s].emitted = << >>
    /\ \E h \in Handlers :
         /\ hnd[h].pc = "idle" /\ hnd[h].kind = "reload"
         /\ hnd[h].resp = << [status |-> "Database reloaded", faces |-> 2] >>

\* C9: Closed is terminal; the chunks a session has emitted are the frames it
\* has read, in the order read, with at most the frame in hand missing; a chunk
\* is emitted only for the frame in hand; a failed read ends the loop at once
\* and nothing is read or emitted after the loop has ended.
C9_OneChunkPerFrameInOrder ==
    /\ [](\A s \in Sessions :
            /\ IsPrefix(sess[s].emitted, sess[s].captured)
            /\ Len(sess[s].captured) - Len(sess[s].emitted) <= 1
            /\ BetweenFrames(s) => sess[s].emitted = sess[s].captured
            /\ sess[s].exit \in {"read_failed", "disconnected", "not_opened"}
                  => sess[s].emitted = sess[s].captured
            /\ \A i \in 1..Len(sess[s].captured) : \A j \in 1..Len(sess[s].captured) :
                  i < j => sess[s].captured[i] < sess[s].captured[j]
            /\ sess[s].exit # "none" <=> sess[s].pc \in {"finally", "closed"})
    /\ [][ \A s \in Sessions :
            /\ sess[s].pc = "closed" => sess'[s] = sess[s]
            /\ sess[s].pc = "finally" => sess'[s].pc \in {"finally", "closed"}
            /\ sess[s].pc \in {"finally", "closed"}
                  => /\ sess'[s].emitted = sess[s].emitted
                     /\ sess'[s].captured = sess[s].captured
            /\ sess'[s].emitted # sess[s].emitted
                  => /\ sess[s].pc = "encode" /\ sess'[s].pc = "yield"
                     /\ sess'[s].emitted = Append(sess[s].emitted, sess[s].frame)
            /\ sess[s].pc = "opening" => sess'[s].pc \in {"opening", "isOpened", "finally"}
            /\ sess[s].pc = "isOpened" => sess'[s].pc \in {"isOpened", "read", "finally"} ]_vars

\* a session has emitted every frame of the camera in order, then a read failed
\* and the session is Closed
C9_Witness ==
    /\ sess[1].pc = "closed" /\ sess[1].exit = "read_failed"
    /\ sess[1].captured = << 1, 2 >> /\ sess[1].emitted = << 1, 2 >>

\* the store as a completed load leaves it for the folder as it is
CompleteStore == LoadAll(folder.files)

\* C10: a pass that reads the store while reloads run sees a complete list: at
\* the len() check the list known_faces names is complete, and the list a pass
\* iterates is complete at every moment of its iteration.
C10_ReloadIsAtomic ==
    /\ [][ \A p \in Passes :
             (pass[p].pc = "analyze" /\ pass'[p].pc \in {"iter", "publish"})
             => lists[known_faces] = CompleteStore ]_vars
    /\ [](\A p \in Passes : pass[p].pc = "next" => lists[pass[p].lst] = CompleteStore)

\* ------------------------------------------------------------ the store alone
\* the characters of a str
Chars(str) ==
    CASE str = "al.jpg"    -> <<"a","l",".","j","p","g">>
      [] str = "bob.png"   -> <<"b","o","b",".","p","n","g">>
      [] str = "bob.PNG"   -> <<"b","o","b",".","P","N","G">>
      [] str = "bob.txt"   -> <<"b","o","b",".","t","x","t">>
      [] str = "cy.JPeG"   -> <<"c","y",".","J","P","e","G">>
      [] str = "d.v2.jpg"  -> <<"d",".","v","2",".","j","p","g">>
      [] str = "e.png.bak" -> <<"e",".","p","n","g",".","b","a","k">>
      [] str = "jpg"       -> <<"j","p","g">>
      [] str = "fpng"      -> <<"f","p","n","g">>
      [] str = ".jpg"      -> <<".","j","p","g">>
      [] str = "zed.jpg"   -> <<"z","e","d",".","j","p","g">>

\* a listing of the given names
Listing(names) == [i \in 1..Len(names) |-> Chars(names[i])]

\* contents of the database folder, as os.listdir may enumerate them
DirNames ==
    { << "al.jpg", "bob.PNG", "bob.txt" >>,
      << >>,
      << "bob.png", "bob.txt" >>,
      << "bob.txt", "cy.JPeG", "d.v2.jpg", "e.png.bak" >>,
      << "jpg", "fpng", "al.jpg" >>,
      << ".jpg", "al.jpg" >> }

Dirs == { Listing(names) : names \in DirNames }

\* the database folder when load_database starts: present with some content,
\* or absent
Folders ==
    { [exists |-> TRUE, files |-> d, made |-> FALSE] : d \in Dirs }
       \cup { [exists |-> FALSE, files |-> << >>, made |-> FALSE] }

\* what known_faces may hold from earlier loads of earlier contents
PriorStores == { << >>, LoadAll(MainDir), LoadAll(Listing(<< "zed.jpg" >>)) }

\* The process after import, over every folder and every earlier store.
InitLoad ==
    /\ recognition_active = FALSE
    /\ current_results = DefaultResults
    /\ camera = None
    /\ hstate = [h \in Sessions |-> "none"]
    /\ known_faces = 1
    /\ \E st \in PriorStores : lists = [l \in ListIds |-> IF l = 1 THEN st ELSE << >>]
    /\ sess = [s \in Sessions |-> IdleSession]
    /\ framesRead = 0
    /\ pass = [p \in Passes |-> IdlePass]
    /\ nLaunched = 0
    /\ hnd = [h \in Handlers |-> IdleHandler]
    /\ folder \in Folders

\* Only the two routes that load the store are used, one request at a time.
NextLoad ==
    \E h \in {1} :
       \/ start_recognition(h) \/ reload_database(h) \/ load_database(h) \/ Respond(h)

SpecLoad == InitLoad /\ [][NextLoad]_vars

\* load_database returns from its for loop (not from its except clause)
LoadReturns(h) == hnd[h].pc = "file" /\ hnd'[h].pc = "respond"

\* C11: load_database is idempotent: whatever the store held before, and so also
\* when it held the result of an earlier reload, a reload that completes leaves
\* the store with the entries of the listing, each once, in listing order.
C11_ReloadIdempotent ==
    [][ \A h \in Handlers :
          /\ LoadReturns(h) => lists'[known_faces'] = LoadAll(folder.files)
          /\ (hnd[h].pc = "clear" /\ hnd'[h].pc = "file") => lists'[known_faces'] = << >>
      ]_vars

\* a second reload of a folder with several images has returned
C11_Witness ==
    /\ hnd[1].pc = "respond" /\ hnd[1].kind = "reload"
    /\ known_faces = 1
    /\ Len(lists[known_faces]) = 2 /\ lists[known_faces] = LoadAll(folder.files)
    /\ lists[known_faces][1].name # lists[known_faces][2].name

\* the entry expected for a file of the folder: << >> when it is no image
ExpectedEntry(str) ==
    CASE str = "al.jpg"    -> << [name |-> "al",   path |-> "database/photos/al.jpg"] >>
      [] str = "bob.png"   -> << [name |-> "bob",  path |-> "database/photos/bob.png"] >>
      [] str = "bob.PNG"   -> << [name |-> "bob",  path |-> "database/photos/bob.PNG"] >>
      [] str = "cy.JPeG"   -> << [name |-> "cy",   path |-> "database/photos/cy.JPeG"] >>
      [] str = "d.v2.jpg"  -> << [name |-> "d.v2", path |-> "database/photos/d.v2.jpg"] >>
      [] str = ".jpg"      -> << [name |-> ".jpg", path |-> "database/photos/.jpg"] >>
      [] str \in {"bob.txt", "e.png.bak", "jpg", "fpng"} -> << >>

RECURSIVE ExpectedStore(_)
ExpectedStore(names) ==
    IF names = << >> THEN << >>
    ELSE ExpectedEntry(Head(names)) \o ExpectedStore(Tail(names))

\* C12: after a reload has completed the store holds one entry for each name of
\* the folder that ends, in any letter case, in .png, .jpg or .jpeg, and none
\* for another name; the entry's label is the name without its last extension
\* (for os.path.splitext a name such as ".jpg" has none) and its path is the
\* folder joined with the name.
C12_StoreIsImageFiles ==
    [][ \A h \in Handlers : \A names \in DirNames :
          (LoadReturns(h) /\ folder.files = Listing(names))
             => lists'[known_faces'] = ExpectedStore(names) ]_vars

\* the reload of a folder holding bob.png and bob.txt has answered, and the
\* store holds the one entry labelled bob
C12_Witness ==
    /\ folder.files = Listing(<< "bob.png", "bob.txt" >>)
    /\ hnd[1].pc = "idle" /\ hnd[1].kind = "reload"
    /\ hnd[1].resp = << [status |-> "Database reloaded", faces |-> 1] >>
    /\ lists[known_faces] = << [name |-> "bob", path |-> "database/photos/bob.png"] >>

\* the bodies the two loading routes answer with status 200
LoadAnswers(n) ==
    { << [status |-> "Recognition started"] >>,
      << [status |-> "Database reloaded", faces |-> n] >> }

\* C13: when the database folder does not exist, load_database creates it and
\* leaves the store empty, and the request that ran it answers with its success
\* status.
C13_AbsentFolderIsCreated ==
    [][ \A h \in Handlers :
          /\ (hnd[h].pc = "clear" /\ hnd'[h].pc = "file" /\ ~folder.exists)
                => /\ folder'.exists /\ folder'.made /\ folder'.files = << >>
                   /\ lists'[known_faces'] = << >>
          /\ (LoadReturns(h) /\ folder.made) => lists'[known_faces'] = << >>
          /\ (hnd[h].pc = "respond" /\ hnd'[h].pc = "idle" /\ folder.files = << >>)
                => /\ hnd'[h].resp \in LoadAnswers(0)
                   /\ lists[known_faces] = << >>
      ]_vars

\* the folder was absent, load_database created it, and /reload_database has
\* answered that no face is loaded
C13_Witness ==
    /\ folder.exists /\ folder.made
    /\ hnd[1].pc = "idle" /\ hnd[1].kind = "reload"
    /\ hnd[1].resp = << [status |-> "Database reloaded", faces |-> 0] >>
    /\ lists[known_faces] = << >>

\* ------------------------------------------------------------ the passes alone
\* distances of verified answers, in units of 1/100000: 0.2, 0.1, 0.12344, and
\* the ends and the outside of [0, 1]
WideDistances == {20000, 10000, 12344, 0, 100000, 120000, -5000}

\* folders whose stores have no, one and two entries
PassFolders ==
    { [exists |-> TRUE, files |-> Listing(names), made |-> FALSE] :
        names \in { << "bob.txt" >>, << "bob.png", "bob.txt" >>,
                    << "al.jpg", "bob.PNG", "bob.txt" >> } }

\* the frames read so far, in order
FramesTo(n) == [i \in 1..n |-> i]

\* The process with its store loaded from one of the folders, after
\* /start_recognition has answered and one client has been sent MaxFrames frames
\* with a face each: a pass has been started for every frame, none has come
\* back from DeepFace.analyze, and the generator is suspended at its yield.
InitPass ==
    /\ recognition_active = TRUE
    /\ current_results = DefaultResults
    /\ camera = 1
    /\ hstate = [h \in Sessions |-> IF h = 1 THEN "open" ELSE "none"]
    /\ folder \in PassFolders
    /\ known_faces = 2
    /\ lists = [l \in ListIds |-> IF l = 2 THEN LoadAll(folder.files) ELSE << >>]
    /\ sess = [s \in Sessions |->
                 IF s = 1
                 THEN [IdleSession EXCEPT !.pc = "yield",
                                          !.captured = FramesTo(MaxFrames),
                                          !.emitted = FramesTo(MaxFrames)]
                 ELSE IdleSession]
    /\ framesRead = MaxFrames
    /\ pass = [p \in Passes |-> [IdlePass EXCEPT !.pc = "analyze", !.frame = p]]
    /\ nLaunched = MaxFrames
    /\ hnd = [h \in Handlers |->
                IF h = 1
                THEN [IdleHandler EXCEPT !.kind = "start",
                                         !.resp = << [status |-> "Recognition started"] >>]
                ELSE IdleHandler]

\* The passes run, with a verifier that may report any of WideDistances or
\* raise, and the snapshot is polled.
NextPass ==
    \/ \E p \in Passes :
         PassSteps(p) \/ Search(p, VerifyAnswers(WideDistances) \cup {VerifyRaises})
    \/ \E h \in {1} : get_results(h)

SpecPass == InitPass /\ [][NextPass]_vars

\* the state InitPass describes for the folder of Init (a state of Spec)
InitPassMain == InitPass /\ folder.files = MainDir

\* the percentage, in hundredths, expected for a verified distance
ExpectedPercent(d) ==
    CASE d = 20000  -> 8000      \* 0.2     -> 80.0
      [] d = 10000  -> 9000      \* 0.1     -> 90.0
      [] d = 12344  -> 8766      \* 0.12344 -> 87.656 -> 87.66
      [] d = 0      -> 10000
      [] d = 100000 -> 0
      [] d = 120000 -> -2000
      [] d = -5000  -> 10500

\* pass p takes a turn of its loop on an entry of the list
VerifyTurn(p) ==
    /\ pass[p].pc = "next" /\ pass[p].idx <= Len(lists[pass[p].lst])
    /\ pass'[p] # pass[p]

\* C14: in a pass whose analysis succeeded the entries are tried in store order;
\* the first verified answer ends the loop, the identity is that entry's label
\* and the confidence (1 - distance) * 100 for the distance it reported, no
\* entry is tried after it, and the dict published carries that label and the
\* confidence rounded to two decimals.
C14_FirstMatchWins ==
    [][ \A p \in Passes :
          /\ (pass[p].pc = "iter" /\ pass'[p].pc = "next")
                => pass'[p].idx = 1 /\ pass'[p].identity = "Unknown"
          /\ VerifyTurn(p) =>
                \/ /\ pass'[p].pc = "next" /\ pass'[p].idx = pass[p].idx + 1
                   /\ pass'[p].identity = "Unknown" /\ pass'[p].confidence = 0
                \/ /\ pass'[p].pc = "publish"
                   /\ pass'[p].identity = lists[pass[p].lst][pass[p].idx].name
                   /\ \E d \in WideDistances : pass'[p].confidence = 100000 - d
          /\ (pass[p].pc = "publish" /\ pass'[p] # pass[p])
                => /\ pass'[p].pc = "done"
                   /\ current_results'.identity = pass[p].identity
                   /\ current_results'.confidence =
                         IF pass[p].identity = "Unknown" THEN 0
                         ELSE ExpectedPercent(100000 - pass[p].confidence)
      ]_vars

\* with al and bob in the store, a pass has published al at 80.0 after a match
\* at distance 0.2 on the first entry
C14_Witness ==
    /\ Len(lists[known_faces]) = 2 /\ lists[known_faces][1].name = "al"
    /\ \E p \in Passes :
         /\ pass[p].pc = "done" /\ pass[p].identity = "al" /\ pass[p].confidence = 80000
         /\ current_results.identity = "al" /\ current_results.confidence = 8000

\* C15: the confidence of the snapshot is a percentage, between 0 and 100,
\* whatever the verifier reports.
C15_ConfidenceInRange == current_results.confidence \in 0..10000

\* C16: a failure of the analysis does not abort the pass: when a pass leaves
\* DeepFace.analyze, by a result or by an exception, and the store is not empty,
\* it goes on to the search of the store (with gender and emotion "Unknown"
\* after a failure).
C16_AnalysisFailureKeepsSearch ==
    [][ \A p \in Passes :
          (pass[p].pc = "analyze" /\ pass'[p] # pass[p] /\ Len(lists[known_faces]) > 0)
             => pass'[p].pc = "iter" ]_vars

\* C17: an exception of the verifier on an entry is swallowed: the loop goes on
\* with the next entry of the list, gender and emotion are kept, an entry that
\* verifies later gives the identity, and what is published carries the gender
\* and emotion of the analysis.
C17_VerifierFailureSwallowed ==
    [][ \A p \in Passes :
          /\ (VerifyTurn(p) /\ ~pass[p].erred /\ pass'[p].erred)
                => /\ pass'[p].pc = "next" /\ pass'[p].idx = pass[p].idx + 1
                   /\ pass'[p].lst = pass[p].lst
                   /\ pass'[p].identity = "Unknown" /\ pass'[p].confidence = 0
          /\ VerifyTurn(p)
                => /\ pass'[p].gender = pass[p].gender
                   /\ pass'[p].emotion = pass[p].emotion
                   /\ pass'[p].pc = "publish" /\ pass'[p].identity # "Unknown"
                         => pass'[p].identity = lists[pass[p].lst][pass[p].idx].name
          /\ (pass[p].pc = "publish" /\ pass'[p].pc = "done")
                => /\ current_results'.gender = pass[p].gender
                   /\ current_results'.emotion = pass[p].emotion
                   /\ current_results'.identity = pass[p].identity
      ]_vars

\* the verifier raised on al, bob verified after it, and the pass has published
\* bob with the gender and emotion of the analysis
C17_Witness ==
    /\ Len(lists[known_faces]) = 2 /\ lists[known_faces][1].name = "al"
    /\ \E p \in Passes :
         /\ pass[p].pc = "done" /\ pass[p].erred
         /\ pass[p].identity = "bob" /\ pass[p].gender = "Woman"
         /\ current_results = [identity |-> "bob", gender |-> "Woman",
                               emotion |-> "sad", confidence |-> 9000]

\* gender and emotion of the first per-face result of each return of the
\* analysis in AnalyzeReturns
FirstFaceLabels == { << "Man", "happy" >>, << "Woman", "sad" >> }

\* C18: a pass whose analysis succeeded carries the dominant gender and emotion
\* of the first per-face result; when the store is empty it skips the search,
\* when the list is exhausted without a verified answer it leaves the search
\* with identity "Unknown" and confidence 0, and it publishes just that.
C18_NoMatchPublishesUnknown ==
    [][ \A p \in Passes :
          /\ (pass[p].pc = "analyze" /\ pass'[p].pc \in {"iter", "publish"})
                => /\ << pass'[p].gender, pass'[p].emotion >> \in FirstFaceLabels
                   /\ pass'[p].identity = "Unknown" /\ pass'[p].confidence = 0
                   /\ pass'[p].pc = "publish" <=> lists[known_faces] = << >>
          /\ (pass[p].pc = "next" /\ pass[p].idx > Len(lists[pass[p].lst])
                /\ pass'[p] # pass[p])
                => /\ pass'[p].pc = "publish"
                   /\ pass'[p].identity = "Unknown" /\ pass'[p].confidence = 0
                   /\ pass'[p].gender = pass[p].gender
                   /\ pass'[p].emotion = pass[p].emotion
          /\ (pass[p].pc = "publish" /\ pass'[p].pc = "done"
                /\ pass[p].identity = "Unknown")
                => current_results' = [identity |-> "Unknown", gender |-> pass[p].gender,
                                       emotion |-> pass[p].emotion, confidence |-> 0]
      ]_vars

\* with an empty store, a pass whose analysis returned two per-face results has
\* published the first one's gender and emotion with identity Unknown
C18_Witness ==
    /\ lists[known_faces] = << >>
    /\ \E p \in Passes : pass[p].pc = "done" /\ pass[p].gender = "Woman"
    /\ current_results = [identity |-> "Unknown", gender |-> "Woman",
                          emotion |-> "sad", confidence |-> 0]

\* ------------------------------------------------------------ every route
\* One client watches the feed, every frame shows a face, passes run, and all
\* four control routes are used.
NextAll ==
    \/ \E s \in {1} : video_feed(s) \/ Stream(s, {1}) \/ Annotate(s)
    \/ \E p \in Passes : recognize_face(p)
    \/ \E h \in {1} :
         \/ start_recognition(h) \/ reload_database(h) \/ load_database(h) \/ Respond(h)
         \/ stop_recognition(h) \/ get_results(h)

SpecAll == Init /\ [][NextAll]_vars

\* a pass completes in this step: it binds current_results
PassCompletes(p) == pass[p].pc \in {"analyze", "publish"} /\ pass'[p].pc = "done"

\* C19: the snapshot is written only by the completion of a pass: a step that
\* changes current_results is the last step of a pass, and no step of a control
\* route or of the generator (open, annotation, close) changes it; stopping and
\* restarting recognition leave it as it is.
C19_OnlyPassesWrite ==
    [][ /\ current_results' # current_results => \E p \in Passes : PassCompletes(p)
        /\ (hnd' # hnd \/ sess' # sess \/ recognition_active' # recognition_active
              \/ known_faces' # known_faces \/ hstate' # hstate)
             => current_results' = current_results ]_vars

\* a pass has published al, recognition has been stopped, the store reloaded
\* and the session closed, and the snapshot names al
C19_Witness ==
    /\ current_results.identity = "al"
    /\ ~recognition_active
    /\ sess[1].pc = "closed"
    /\ hnd[1].pc = "idle" /\ hnd[1].kind = "reload" /\ hnd[1].resp # << >>
    /\ \A p \in Passes : pass[p].pc \in {"idle", "done"}

\* C20: the snapshot is what the pass that completed last bound it to,
\* whatever the launch order: a completing pass binds it to the values of its
\* own locals (or to the defaults after a failed analysis), nothing else
\* changes it, and /get_results answers the snapshot as it is at that moment.
C20_LastCompletedWins ==
    [][ /\ \A p \in Passes :
             /\ (pass[p].pc = "publish" /\ pass'[p].pc = "done")
                   => current_results' =
                        [identity |-> pass[p].identity, gender |-> pass[p].gender,
                         emotion |-> pass[p].emotion,
                         confidence |-> IF pass[p].identity = "Unknown" THEN 0
                                        ELSE ExpectedPercent(100000 - pass[p].confidence)]
             /\ (pass[p].pc = "analyze" /\ pass'[p].pc = "done")
                   => current_results' =
                        [identity |-> "Unknown", gender |-> "Unknown",
                         emotion |-> "Unknown", confidence |-> 0]
        /\ (\A p \in Passes : ~PassCompletes(p)) => current_results' = current_results
        /\ \A h \in Handlers :
             (hnd'[h] # hnd[h] /\ hnd'[h].kind = "results")
                => hnd'[h].resp = << current_results >>
      ]_vars

\* pass 2, launched last, published bob first; pass 1 then published al, and
\* /get_results has answered pass 1's values
C20_Witness ==
    /\ pass[1].pc = "done" /\ pass[2].pc = "done"
    /\ pass[1].identity = "al" /\ pass[2].identity = "bob"
    /\ current_results.identity = "al"
    /\ hnd[1].kind = "results"
    /\ hnd[1].resp = << [identity |-> "al", gender |-> pass[1].gender,
                         emotion |-> pass[1].emotion, confidence |-> 8000] >>

\* ------------------------------------------------------------ the overlay
\* distances of verified answers: 0.2, and 1.2 (see C15)
DrawDistances == {20000, 120000}

\* One client watches the feed, every frame shows one or more faces,
\* recognition is started and stopped, and the passes run with a verifier that
\* may report any of DrawDistances.
NextDraw ==
    \/ \E s \in {1} : video_feed(s) \/ Stream(s, 1..(MaxFaces + 1)) \/ Annotate(s)
    \/ \E p \in Passes : PassSteps(p) \/ Search(p, VerifyAnswers(DrawDistances))
    \/ \E h \in {1} :
         \/ start_recognition(h) \/ load_database(h) \/ Respond(h) \/ stop_recognition(h)

SpecDraw == Init /\ [][NextDraw]_vars

\* the generator leaves position pc for a later position of the loop body
Leaves(s, pc) == sess[s].pc = pc /\ sess'[s].pc # pc

\* C21: every detected region of a frame gets its rectangle; the identity,
\* gender and emotion lines are drawn for a region if and only if
\* recognition_active is true when the region is reached; the confidence line
\* is drawn if and only if they are and the snapshot's confidence is not 0.
C21_OverlayFollowsFlag ==
    [][ \A s \in Sessions :
          /\ Leaves(s, "rect")
                => /\ Len(sess'[s].drawn) = sess[s].region
                   /\ sess'[s].pc = "identity" <=> recognition_active
          /\ Leaves(s, "identity")
                => sess'[s].pc = "gender"
                   /\ sess'[s].drawn[sess[s].region].identity # NoText
          /\ Leaves(s, "gender")
                => sess'[s].pc = "emotion"
                   /\ sess'[s].drawn[sess[s].region].gender # NoText
          /\ Leaves(s, "emotion")
                => sess'[s].pc = "confidence"
                   /\ sess'[s].drawn[sess[s].region].emotion # NoText
          /\ Leaves(s, "confidence")
                => sess'[s].pc = "confidenceText" <=> current_results.confidence # 0
          /\ Leaves(s, "confidenceText")
                => sess'[s].drawn[sess[s].region].confidence # NoText
          /\ (sess[s].pc = "dispatch" /\ sess'[s].pc = "encode")
                => Len(sess[s].drawn) = sess[s].faces
      ]_vars

\* ------------------------------------------------------------ the enable flag
\* slot h takes up a request of the given kind in this step
Requested(h, kind) == hnd[h].pc = "idle" /\ hnd'[h] # hnd[h] /\ hnd'[h].kind = kind

\* C22: recognition_active is false at startup and changes only in the step that
\* takes up /start_recognition (to true) or /stop_recognition (to false);
\* /start_recognition goes on to load_database and then answers "Recognition
\* started", /stop_recognition answers "Recognition stopped"; no step of the
\* generator, of a pass, of /get_results or of /reload_database changes it.
C22_FlagFollowsRoutes ==
    /\ ~recognition_active
    /\ [][ /\ recognition_active' # recognition_active
                => \E h \in Handlers : Requested(h, "start") \/ Requested(h, "stop")
           /\ \A h \in Handlers :
                /\ hnd'[h].kind = "start" /\ hnd'[h] # hnd[h] /\ hnd[h].pc = "idle"
                      => recognition_active' /\ hnd'[h].pc = "clear"
                /\ (hnd[h].pc = "clear" /\ hnd'[h] # hnd[h])
                      => /\ lists'[known_faces'] = << >>
                         /\ hnd'[h].pc \in {"file", "respond"}
                /\ (hnd[h].pc = "respond" /\ hnd'[h] # hnd[h] /\ hnd[h].kind = "start")
                      => /\ hnd'[h].pc = "idle"
                         /\ hnd'[h].resp = << [status |-> "Recognition started"] >>
                /\ Requested(h, "stop")
                      => /\ ~recognition_active'
                         /\ hnd'[h].pc = "idle"
                         /\ hnd'[h].resp = << [status |-> "Recognition stopped"] >>
                /\ (Requested(h, "results") \/ Requested(h, "reload")
                      \/ hnd[h].pc # "idle")
                      => recognition_active' = recognition_active
           /\ (sess' # sess \/ pass' # pass \/ current_results' # current_results)
                => recognition_active' = recognition_active
         ]_vars

\* recognition was started, a pass ran for a frame and published, then
\* recognition was stopped, and the store has since been reloaded with the flag
\* still false
C22_Witness ==
    /\ ~recognition_active
    /\ nLaunched = 1 /\ pass[1].pc = "done" /\ current_results.identity = "bob"
    /\ hnd[1].pc = "respond" /\ hnd[1].kind = "reload"
    /\ sess[1].pc = "yield" /\ Len(sess[1].emitted) = 2

\* ------------------------------------------------------------ a failing oracle
\* One client watches the feed, every frame shows a face, recognition is started
\* and the snapshot polled; DeepFace.analyze may raise or return nothing, and
\* DeepFace.verify may raise.
NextFaulty ==
    \/ \E s \in {1} : video_feed(s) \/ Stream(s, {1}) \/ Annotate(s)
    \/ \E p \in Passes : PassSteps(p) \/ Search(p, VerifyReturns \cup {VerifyRaises})
    \/ \E h \in {1} :
         \/ start_recognition(h) \/ load_database(h) \/ Respond(h) \/ get_results(h)

SpecFaulty == Init /\ [][NextFaulty]_vars

\* no call of the oracle has returned a result so far: no pass has come back
\* from DeepFace.analyze with a per-face result
Outage ==
    \A p \in Passes :
       \/ pass[p].pc \in {"idle", "analyze"}
       \/ pass[p].pc = "done" /\ pass[p].gender = "Unknown"

\* the text lines of one region are absent or say Unknown, without confidence
LabelledUnknown(d) ==
    /\ d.identity \in {NoText, << "Unknown" >>}
    /\ d.gender \in {NoText, << "Unknown" >>}
    /\ d.emotion \in {NoText, << "Unknown" >>}
    /\ d.confidence = NoText

\* C23: a failure inside a pass stays inside it: the step in which the analysis
\* fails publishes the all-Unknown snapshot and the step in which the verifier
\* raises goes on with the loop, and neither changes a session or a request;
\* while no oracle call has returned a result the snapshot is all-Unknown with
\* confidence 0, every label drawn says Unknown, every /get_results body is that
\* snapshot, and /get_results can be answered at once.
C23_PassFailuresStayInside ==
    /\ [][ \A p \in Passes :
             /\ (pass[p].pc = "analyze" /\ pass'[p].pc = "done")
                   => /\ current_results' = [identity |-> "Unknown", gender |-> "Unknown",
                                             emotion |-> "Unknown", confidence |-> 0]
                      /\ sess' = sess /\ hnd' = hnd /\ hstate' = hstate
             /\ (~pass[p].erred /\ pass'[p].erred)
                   => /\ pass'[p].pc = "next"
                      /\ sess' = sess /\ hnd' = hnd /\ hstate' = hstate
                      /\ current_results' = current_results ]_vars
    /\ [](Outage =>
            /\ current_results = [identity |-> "Unknown", gender |-> "Unknown",
                                  emotion |-> "Unknown", confidence |-> 0]
            /\ \A s \in Sessions : \A i \in 1..Len(sess[s].drawn) :
                  LabelledUnknown(sess[s].drawn[i])
            /\ \A h \in Handlers :
                  (hnd[h].kind = "results" /\ hnd[h].resp # << >>)
                     => hnd[h].resp = << [identity |-> "Unknown", gender |-> "Unknown",
                                          emotion |-> "Unknown", confidence |-> 0] >>)
    /\ [](\A h \in {1} : hnd[h].pc = "idle" => ENABLED get_results(h))

\* the analysis of the pass for the first frame has failed; the second frame
\* has since been labelled Unknown with recognition on and its pass is in the
\* oracle, the session streams on, and /get_results has answered the defaults
C23_Witness ==
    /\ Outage /\ recognition_active
    /\ nLaunched = 2 /\ pass[1].pc = "done" /\ pass[2].pc = "analyze"
    /\ sess[1].pc = "encode" /\ sess[1].frame = 2
    /\ sess[1].drawn = << [identity |-> << "Unknown" >>, gender |-> << "Unknown" >>,
                           emotion |-> << "Unknown" >>, confidence |-> << >>] >>
    /\ hnd[1].kind = "results" /\ hnd[1].resp # << >>

\* ------------------------------------------------------------ concurrent reloads
\* Requests that load the store are served at the same time, one per slot
\* (Flask runs threaded); the file system works; nothing else happens.
NextReloads ==
    \E h \in Handlers :
       \/ start_recognition(h) \/ reload_database(h) \/ Respond(h)
       \/ Clear(h, {"listed"}) \/ LoadFile(h) \/ LoadAppend(h)

SpecReloads == Init /\ [][NextReloads]_vars

\* the entries of the two image files of MainDir
MainEntries ==
    { [name |-> "al", path |-> "database/photos/al.jpg"],
      [name |-> "bob", path |-> "database/photos/bob.PNG"] }

\* C24: the answer of /reload_database carries the number of entries its reload
\* loaded, the number of image files of the folder (two for MainDir), also when
\* other reloads run at the same time.  (fr_system is set in every state of the
\* model, so the answer for an uninitialised system does not occur.)
C24_ReloadCountsItsLoad ==
    [][ \A h \in Handlers :
          (hnd[h].pc = "respond" /\ hnd'[h].pc = "idle" /\ hnd[h].kind = "reload")
             => hnd'[h].resp = << [status |-> "Database reloaded", faces |-> 2] >>
      ]_vars

\* C27: once the reloads that interleaved have all finished, the store holds
\* each image file of the folder exactly once.
C27_InterleavedReloadsKeepStore ==
    (\A h \in Handlers : hnd[h].pc = "idle")
       => /\ Len(lists[known_faces]) = 2
          /\ \A e \in MainEntries :
                Cardinality({ i \in 1..Len(lists[known_faces]) :
                                 lists[known_faces][i] = e }) = 1

\* ------------------------------------------------------------ order of the loop body
\* session s starts a pass in this step (the Thread(...).start() of line 183)
Launches(s) ==
    /\ sess[s].pc = "dispatch" /\ sess'[s].pc = "encode"
    /\ nLaunched' = nLaunched + 1

\* C25: the pass for a frame is launched before the frame is annotated: at the
\* step that hands the frame to the pass nothing has been drawn on it, neither
\* a rectangle nor a text line, and the annotation of the frame comes after.
C25_LaunchBeforeAnnotate ==
    [][ \A s \in Sessions :
          Launches(s) => /\ sess[s].drawn = << >>
                         /\ pass'[nLaunched'].frame = sess[s].frame ]_vars

\* ------------------------------------------------------------ a pass across reloads
\* The process as InitPassMain describes it; the pass for the first frame goes
\* on while /reload_database is requested, by several clients at the same
\* time; the file system works.
NextSwap ==
    \/ \E p \in {1} : recognize_face(p)
    \/ \E h \in Handlers :
         \/ reload_database(h) \/ Respond(h)
         \/ Clear(h, {"listed"}) \/ LoadFile(h) \/ LoadAppend(h)

SpecSwap == InitPassMain /\ [][NextSwap]_vars

\* a request runs line 50 in this step: its reload starts
ReloadStarts == \E h \in Handlers : hnd[h].pc = "clear" /\ hnd'[h].pc # "clear"

\* C26: a reload that starts while a pass iterates binds the store to another
\* list object and leaves the pass's list as it is; from then on, as long as
\* the pass iterates, no step removes, adds or reorders an entry of the pass's
\* list, and an identity the pass finds is a label of that list.
C26_PassKeepsPreReloadList ==
    [][ \A p \in Passes :
          /\ (pass[p].pc = "next" /\ pass'[p].pc = "next" /\ ReloadStarts)
                => /\ known_faces' # pass[p].lst
                   /\ lists'[pass[p].lst] = lists[pass[p].lst]
          /\ (pass[p].pc = "next" /\ pass'[p].pc = "next" /\ known_faces # pass[p].lst)
                => /\ lists'[pass[p].lst] = lists[pass[p].lst]
                   /\ pass'[p].lst = pass[p].lst
          /\ (VerifyTurn(p) /\ pass'[p].identity # "Unknown")
                => \E i \in 1..Len(lists[pass[p].lst]) :
                      lists[pass[p].lst][i].name = pass'[p].identity
      ]_vars

\* ------------------------------------------------------------ the shared camera
\* session t runs its finally clause in this step
Closes(t) == sess[t].pc = "finally" /\ sess'[t].pc = "closed"

\* C28: with overlapping sessions, the finally clause of a session releases the
\* handle that session opened and no other, and once every session that was
\* opened is Closed no handle is left open.
C28_EachSessionReleasesItsOwn ==
    /\ [][ \A t \in Sessions :
             Closes(t) => /\ \A s \in Sessions \ {t} : hstate'[s] = hstate[s]
                          /\ hstate[t] = "open" => hstate'[t] = "released" ]_vars
    /\ []((\A s \in Sessions : sess[s].pc \in {"idle", "closed"})
            => \A h \in Sessions : hstate[h] # "open")

\* ------------------------------------------------------------ a failing listing
\* load_database leaves through its except clause in this step: os.makedirs or
\* os.listdir raised
LoadFails(h) == hnd[h].pc = "clear" /\ hnd'[h].pc = "respond"

\* C29: when the enumeration of the folder fails, load_database swallows the
\* error: the store is left bound to the new list, empty as nothing was
\* appended before the failure, and not to the list it held before; the request
\* that ran the load answers with its success status, the count being 0.
C29_ListingFailureSwallowed ==
    [][ \A h \in Handlers :
          /\ LoadFails(h)
                => /\ known_faces' # known_faces
                   /\ lists'[known_faces'] = << >>
                   /\ hnd'[h].kind = hnd[h].kind
          /\ (hnd[h].pc = "respond" /\ hnd'[h] # hnd[h])
                => /\ hnd'[h].pc = "idle"
                   /\ hnd[h].kind = "start"
                         => hnd'[h].resp = << [status |-> "Recognition started"] >>
                   /\ (hnd[h].kind = "reload" /\ lists[known_faces] = << >>)
                         => hnd'[h].resp =
                               << [status |-> "Database reloaded", faces |-> 0] >>
      ]_vars

\* the store held al and bob and the folder holds their files, the listing
\* failed, and /reload_database has answered that 0 faces are loaded
C29_Witness ==
    /\ folder.files = MainDir
    /\ known_faces # 1 /\ lists[known_faces] = << >>
    /\ hnd[1].pc = "idle" /\ hnd[1].kind = "reload"
    /\ hnd[1].resp = << [status |-> "Database reloaded", faces |-> 0] >>

\* ------------------------------------------------------------ termination of a pass
\* a step of the thread of pass p, with the verifier of NextPass
PassTurn(p) ==
    PassSteps(p) \/ Search(p, VerifyAnswers(WideDistances) \cup {VerifyRaises})

\* The passes alone, as in SpecPass; every call of the oracle returns or raises
\* and the thread of a pass is scheduled as long as it has a step to take.
SpecPassFair ==
    InitPass /\ [][NextPass]_vars /\ \A p \in Passes : WF_vars(PassTurn(p))

\* C30: every launched pass terminates and publishes exactly once: it reaches
\* its end; the step that ends it is the one binding of current_results it
\* makes, to its outcome (line 114) or, the analysis having given it nothing,
\* to the all-Unknown defaults (line 123); no step before that one changes the
\* snapshot on its behalf, and after it the pass does nothing.
C30_PassPublishesOnce ==
    /\ \A p \in Passes : (pass[p].pc = "analyze") ~> (pass[p].pc = "done")
    /\ [][ \A p \in Passes :
             /\ (pass[p].pc # "done" /\ pass'[p].pc = "done")
                   => \/ /\ pass[p].pc = "publish"
                         /\ current_results'.identity = pass[p].identity
                         /\ current_results'.gender = pass[p].gender
                         /\ current_results'.emotion = pass[p].emotion
                      \/ /\ pass[p].pc = "analyze"
                         /\ pass'[p] = [pass[p] EXCEPT !.pc = "done"]
                         /\ current_results' = [identity |-> "Unknown", gender |-> "Unknown",
                                                emotion |-> "Unknown", confidence |-> 0]
             /\ (pass'[p] # pass[p] /\ pass'[p].pc # "done")
                   => current_results' = current_results
             /\ pass[p].pc = "done" => pass'[p] = pass[p] ]_vars

\* both passes have ended, one by publishing bob after the verifier raised on
\* al, the other, last, by the defaults after its analysis failed
C30_Witness ==
    /\ \A p \in Passes : pass[p].pc = "done"
    /\ \E p \in Passes : pass[p].identity = "bob" /\ pass[p].erred
    /\ \E p \in Passes : pass[p].gender = "Unknown"
    /\ current_results = [identity |-> "Unknown", gender |-> "Unknown",
                          emotion |-> "Unknown", confidence |-> 0]

=============================================================================
